---- MODULE Spec2Model ----
(***************************************************************************)
(* A model of aiutils.c: bounded string copy/concatenation, fixed-width    *)
(* number rendering, decimal and hexadecimal parsing, the copy-and-edit    *)
(* variants, the line reader and the re-entrant tokenizer.                 *)
(*                                                                         *)
(* Bytes are the integers 0..255 (ASCII codes). A C string passed as a     *)
(* read-only argument is the sequence of its non-zero bytes (its           *)
(* terminator is implicit). A destination buffer is an array indexed from  *)
(* 0 like the C object, together with the set of indices written by the    *)
(* call and a flag raised when a store leaves the object.                  *)
(***************************************************************************)
EXTENDS Integers, Sequences, FiniteSets, TLC

VARIABLES pc, op, dst, pre, dst2, src, cap, args,
          slice, out, ret, libc,
          stream, pos, prevpos, lbuf, outs,
          tbuf, torig, tsave, ttoks, tdone, delim

vars == <<pc, op, dst, pre, dst2, src, cap, args,
          slice, out, ret, libc,
          stream, pos, prevpos, lbuf, outs,
          tbuf, torig, tsave, ttoks, tdone, delim>>

bufVars == <<pc, op, dst, pre, dst2, src, cap, args>>
numVars == <<slice, out, ret, libc>>
lineVars == <<stream, pos, prevpos, lbuf, outs>>
tokVars == <<tbuf, torig, tsave, ttoks, tdone, delim>>

(***************************************************************************)
(* Bounds of the model.                                                    *)
(***************************************************************************)
MaxLen == 3        \* longest source string drawn
Slack == 2         \* bytes of the destination object past the largest cap

MaxCap == MaxLen + 1
PhysLen == MaxCap + Slack

(***************************************************************************)
(* Characters.                                                             *)
(***************************************************************************)
CH_STAR == 42      \* '*'
CH_SPACE == 32     \* ' '
CH_ZERO == 48      \* '0'
JUNK == 255        \* content of destination bytes the caller never set

Byte == 0..255

\* size_t arithmetic is modular. The model keeps a wrapped value as SIZE_MAX,
\* SIZE_MAX - 1, ...: any SIZE_MAX larger than every buffer gives the same runs.
SIZE_MAX == 2147483647

SizeDec(x) == IF x = 0 THEN SIZE_MAX ELSE x - 1

isspace(c) == c \in {32, 9, 10, 11, 12, 13}
isupper(c) == c \in 65..90
tolower(c) == IF isupper(c) THEN c + 32 ELSE c

Min(a, b) == IF a < b THEN a ELSE b

\* All sequences over S of length at most n.
RECURSIVE SeqsUpTo(_, _)
SeqsUpTo(S, n) ==
    IF n = 0 THEN {<<>>}
    ELSE LET shorter == SeqsUpTo(S, n - 1)
         IN  shorter \cup {Append(s, c) : s \in {t \in shorter : Len(t) = n - 1}, c \in S}

Take(s, n) == SubSeq(s, 1, Min(n, Len(s)))

(***************************************************************************)
(* Memory.                                                                 *)
(***************************************************************************)
\* *s at offset i of a C string: its terminator sits at offset Len(s).
SrcAt(s, i) == IF i < Len(s) THEN s[i + 1] ELSE 0

\* A destination object holding string t, its terminator, then junk.
MemOf(t, n) ==
    [i \in 0..(n - 1) |-> IF i < Len(t) THEN t[i + 1] ELSE IF i = Len(t) THEN 0 ELSE JUNK]

Fresh(mem) == [mem |-> mem, w |-> {}, fault |-> FALSE]

Store(m, i, b) ==
    IF i \in DOMAIN m.mem
    THEN [mem |-> [m.mem EXCEPT ![i] = b], w |-> m.w \cup {i}, fault |-> m.fault]
    ELSE [mem |-> m.mem, w |-> m.w \cup {i}, fault |-> TRUE]

Load(m, i) == IF i \in DOMAIN m.mem THEN m.mem[i] ELSE 0

\* strlen(mem + from): the bytes before the first zero (the whole rest if none).
RECURSIVE CStrFrom(_, _)
CStrFrom(mem, from) ==
    IF from \notin DOMAIN mem \/ mem[from] = 0 THEN <<>>
    ELSE <<mem[from]>> \o CStrFrom(mem, from + 1)

CStr(mem) == CStrFrom(mem, 0)

HasZeroBelow(mem, n) == \E i \in DOMAIN mem : i < n /\ mem[i] = 0

(***************************************************************************)
(* strzcpy(), strzcat()                                                    *)
(***************************************************************************)
\* while (*s && --dsize) *d++ = *s++;  *d = 0;
RECURSIVE CopyLoop(_, _, _, _, _)
CopyLoop(m, di, s, si, dsize) ==
    IF SrcAt(s, si) # 0 /\ SizeDec(dsize) # 0
    THEN CopyLoop(Store(m, di, SrcAt(s, si)), di + 1, s, si + 1, SizeDec(dsize))
    ELSE Store(m, di, 0)

\* A copy loop that overruns the capacity by one byte.
strzcpy_offbyone(m, s, dsize) ==
    IF dsize <= 0 THEN m ELSE CopyLoop(m, 0, s, 0, dsize + 1)

\* A copy that leaves out the final *d = 0.
strzcpy_noterm(m, s, dsize) ==
    IF dsize <= 0 THEN m
    ELSE LET r == CopyLoop(m, 0, s, 0, dsize)
             e == Min(Len(s), dsize - 1)
         IN  [mem |-> [r.mem EXCEPT ![e] = m.mem[e]], w |-> r.w \ {e}, fault |-> r.fault]

strzcpy(m, s, dsize) ==
    IF dsize <= 0 THEN m ELSE CopyLoop(m, 0, s, 0, dsize)

\* while (*d) dsize--, d++;
RECURSIVE ScanEnd(_, _, _)
ScanEnd(m, di, dsize) ==
    IF Load(m, di) # 0 THEN ScanEnd(m, di + 1, SizeDec(dsize))
    ELSE [di |-> di, dsize |-> dsize]

\* A concatenation that forgets the length already stored in d.
strzcat_noscan(m, s, dsize) ==
    IF dsize <= 1 THEN m
    ELSE CopyLoop(m, ScanEnd(m, 0, dsize).di, s, 0, dsize)

strzcat(m, s, dsize) ==
    IF dsize <= 1 THEN m
    ELSE LET e == ScanEnd(m, 0, dsize)
         IN  CopyLoop(m, e.di, s, 0, e.dsize)

(***************************************************************************)
(* fitoa(), numzcat(). A uint32_t is kept as its two 16-bit halves, so     *)
(* that n % 10 and n / 10 are computed on the full 32-bit range.           *)
(***************************************************************************)
U32(hi, lo) == [hi |-> hi, lo |-> lo]
U32Zero(n) == n.hi = 0 /\ n.lo = 0
U32Mod10(n) == ((n.hi % 10) * 65536 + n.lo) % 10
U32Div10(n) == U32(n.hi \div 10, ((n.hi % 10) * 65536 + n.lo) \div 10)

\* for (p = s + wid; p > s;) *--p = '*';
RECURSIVE FillDown(_, _, _)
FillDown(m, p, c) ==
    IF p > 0 THEN FillDown(Store(m, p - 1, c), p - 1, c) ELSE m

\* do { if (p <= s) {stars; return;} *--p = '0' + n % 10; n /= 10; } while (n);
\* while (p > s) *--p = ' ';
RECURSIVE FitoaLoop(_, _, _, _)
FitoaLoop(m, p, n, wid) ==
    IF p <= 0 THEN FillDown(m, wid, CH_STAR)
    ELSE LET m1 == Store(m, p - 1, CH_ZERO + U32Mod10(n))
             n1 == U32Div10(n)
         IN  IF ~U32Zero(n1) THEN FitoaLoop(m1, p - 1, n1, wid)
             ELSE FillDown(m1, p - 1, CH_SPACE)

\* A rendering that forgets the terminator after the field.
fitoa_noterm(n, wid, m) == FitoaLoop(m, wid, n, wid)

fitoa(n, wid, m) == FitoaLoop(Store(m, wid, 0), wid, n, wid)

\* for (p = b; *p == ' '; p++);
RECURSIVE SkipSpaces(_, _)
SkipSpaces(mem, p) ==
    IF p \in DOMAIN mem /\ mem[p] = CH_SPACE THEN SkipSpaces(mem, p + 1) ELSE p

numzcat(m, n, dsize) ==
    LET b == fitoa(n, 11, Fresh([i \in 0..11 |-> JUNK]))
        p == SkipSpaces(b.mem, 0)
    IN  strzcat(m, CStrFrom(b.mem, p), dsize)

(***************************************************************************)
(* In-place editors and the copy-and-edit variants.                        *)
(***************************************************************************)
MODE_L == 108      \* 'l'
MODE_R == 114      \* 'r'
MODE_B == 98       \* 'b'

NullFault(m) == [mem |-> m.mem, w |-> m.w, fault |-> TRUE]

\* memmove(s, s + from, n): n bytes towards lower addresses.
RECURSIVE MoveDown(_, _, _, _)
MoveDown(m, from, n, i) ==
    IF i < n THEN MoveDown(Store(m, i, Load(m, from + i)), from, n, i + 1) ELSE m

RECURSIVE SkipLeading(_, _)
SkipLeading(mem, i) ==
    IF i \in DOMAIN mem /\ mem[i] # 0 /\ isspace(mem[i]) THEN SkipLeading(mem, i + 1) ELSE i

\* while (end >= s && isspace(*end)) end--;
RECURSIVE SkipTrailing(_, _)
SkipTrailing(mem, e) ==
    IF e >= 0 /\ isspace(mem[e]) THEN SkipTrailing(mem, e - 1) ELSE e

\* A trim whose 'b' mode runs the left pass only.
trim_inplace_noright(m, snull, mode) ==
    IF snull THEN m
    ELSE LET len == Len(CStr(m.mem))
         IN  IF len = 0 THEN m
             ELSE LET start == IF mode \in {MODE_L, MODE_B} THEN SkipLeading(m.mem, 0) ELSE 0
                      m1 == IF start > 0 THEN MoveDown(m, start, len - start + 1, 0) ELSE m
                      len1 == IF start > 0 THEN Len(CStr(m1.mem)) ELSE len
                  IN  IF mode = MODE_R
                      THEN IF len1 = 0 THEN m1
                           ELSE Store(m1, SkipTrailing(m1.mem, len1 - 1) + 1, 0)
                      ELSE m1

trim_inplace(m, snull, mode) ==
    IF snull THEN m
    ELSE LET len == Len(CStr(m.mem))
         IN  IF len = 0 THEN m
             ELSE LET start == IF mode \in {MODE_L, MODE_B} THEN SkipLeading(m.mem, 0) ELSE 0
                      m1 == IF start > 0 THEN MoveDown(m, start, len - start + 1, 0) ELSE m
                      len1 == IF start > 0 THEN Len(CStr(m1.mem)) ELSE len
                  IN  IF mode \in {MODE_R, MODE_B}
                      THEN IF len1 = 0 THEN m1
                           ELSE Store(m1, SkipTrailing(m1.mem, len1 - 1) + 1, 0)
                      ELSE m1

trim_safe_copy(m, dnull, s, snull, dest_size, mode) ==
    IF snull \/ dnull \/ dest_size = 0
    THEN IF ~dnull /\ dest_size > 0 THEN Store(m, 0, 0) ELSE m
    ELSE trim_inplace(strzcpy(m, s, dest_size), FALSE, mode)

RECURSIVE ReplaceLoop(_, _, _, _, _, _)
ReplaceLoop(m, i, len, ch, newch, skipends) ==
    IF i < len
    THEN ReplaceLoop(IF Load(m, i) = ch /\ ~(skipends /\ (i = 0 \/ i = len - 1))
                     THEN Store(m, i, newch) ELSE m,
                     i + 1, len, ch, newch, skipends)
    ELSE m

replace_char_inplace(m, snull, ch, newch, skipends) ==
    IF snull THEN m
    ELSE LET len == Len(CStr(m.mem))
         IN  IF len = 0 THEN m ELSE ReplaceLoop(m, 0, len, ch, newch, skipends)

\* The null branch stores through dest whenever dest_size > 0, null or not.
replace_char_safe_copy(m, dnull, s, snull, dest_size, ch, newch, skipends) ==
    IF dnull \/ snull \/ dest_size = 0
    THEN IF dest_size > 0
         THEN IF dnull THEN NullFault(m) ELSE Store(m, 0, 0)
         ELSE m
    ELSE replace_char_inplace(strzcpy(m, s, dest_size), FALSE, ch, newch, skipends)

\* strncpy(dest, s + from, n): n bytes, zero-filled after the end of s.
RECURSIVE Strncpy(_, _, _, _, _)
Strncpy(m, s, from, n, i) ==
    IF i < n THEN Strncpy(Store(m, i, SrcAt(s, from + i)), s, from, n, i + 1) ELSE m

\* A substring copy that forgets to clamp the length to what src holds.
substring_safe_copy_noavail(m, dnull, s, snull, dest_size, position, length) ==
    IF dnull \/ snull \/ dest_size = 0
    THEN IF ~dnull /\ dest_size > 0 THEN Store(m, 0, 0) ELSE m
    ELSE LET src_len == Len(s)
         IN  IF position >= src_len THEN Store(m, 0, 0)
             ELSE LET max_dest_copy == dest_size - 1
                      copy_len == IF length > max_dest_copy THEN max_dest_copy ELSE length
                  IN  Store(Strncpy(m, s, position, copy_len, 0), copy_len, 0)

\* A substring copy that keeps two bytes of the destination in reserve.
substring_safe_copy_short(m, dnull, s, snull, dest_size, position, length) ==
    IF dnull \/ snull \/ dest_size = 0
    THEN IF ~dnull /\ dest_size > 0 THEN Store(m, 0, 0) ELSE m
    ELSE LET src_len == Len(s)
         IN  IF position >= src_len THEN Store(m, 0, 0)
             ELSE LET chars_available == src_len - position
                      copy_len0 == IF length < chars_available THEN length ELSE chars_available
                      max_dest_copy == IF dest_size >= 2 THEN dest_size - 2 ELSE 0
                      copy_len == IF copy_len0 > max_dest_copy THEN max_dest_copy ELSE copy_len0
                  IN  Store(Strncpy(m, s, position, copy_len, 0), copy_len, 0)

substring_safe_copy(m, dnull, s, snull, dest_size, position, length) ==
    IF dnull \/ snull \/ dest_size = 0
    THEN IF ~dnull /\ dest_size > 0 THEN Store(m, 0, 0) ELSE m
    ELSE LET src_len == Len(s)
         IN  IF position >= src_len THEN Store(m, 0, 0)
             ELSE LET chars_available == src_len - position
                      copy_len0 == IF length < chars_available THEN length ELSE chars_available
                      max_dest_copy == dest_size - 1
                      copy_len == IF copy_len0 > max_dest_copy THEN max_dest_copy ELSE copy_len0
                  IN  Store(Strncpy(m, s, position, copy_len, 0), copy_len, 0)

\* The offsets of src that strncpy(dest, s + from, n) reads: one per byte
\* stored, up to and including the terminator of s if it comes first.
RECURSIVE StrncpyReads(_, _, _, _)
StrncpyReads(s, from, n, i) ==
    IF i < n
    THEN {from + i} \cup (IF SrcAt(s, from + i) = 0 THEN {} ELSE StrncpyReads(s, from, n, i + 1))
    ELSE {}

\* The offsets of src that substring_safe_copy reads: strlen(src) reads up to
\* and including the terminator, strncpy reads the bytes it copies.
substring_reads(dnull, s, snull, dest_size, position, length) ==
    IF dnull \/ snull \/ dest_size = 0 THEN {}
    ELSE LET src_len == Len(s)
         IN  IF position >= src_len THEN 0..src_len
             ELSE LET chars_available == src_len - position
                      copy_len0 == IF length < chars_available THEN length ELSE chars_available
                      max_dest_copy == dest_size - 1
                      copy_len == IF copy_len0 > max_dest_copy THEN max_dest_copy ELSE copy_len0
                  IN  (0..src_len) \cup StrncpyReads(s, position, copy_len, 0)

\* while (*src && --dest_size > 0) *dest++ = lower(*src++);  *dest = 0;
RECURSIVE LowerLoop(_, _, _, _, _)
LowerLoop(m, di, s, si, dest_size) ==
    IF SrcAt(s, si) # 0 /\ SizeDec(dest_size) > 0
    THEN LowerLoop(Store(m, di, IF isupper(SrcAt(s, si)) THEN tolower(SrcAt(s, si)) ELSE SrcAt(s, si)),
                   di + 1, s, si + 1, SizeDec(dest_size))
    ELSE Store(m, di, 0)

makelower_safe_copy(m, dnull, s, snull, dest_size) ==
    IF dnull \/ snull \/ dest_size = 0
    THEN IF ~dnull /\ dest_size > 0 THEN Store(m, 0, 0) ELSE m
    ELSE LowerLoop(m, 0, s, 0, dest_size)

(***************************************************************************)
(* decatoi(), hexatoi(). An int64_t is kept as its four 16-bit limbs, the  *)
(* least significant first, in two's complement.                           *)
(***************************************************************************)
I64Zero == <<0, 0, 0, 0>>
I64Max == <<65535, 65535, 65535, 32767>>
I64Min == <<0, 0, 0, 32768>>

I64OfU32(n) == <<n.lo, n.hi, 0, 0>>

\* (v << 4) | d for a digit d < 16: the bits shifted past bit 63 are lost.
\* (Shifting a set bit into or past the sign bit is left to the compiler by
\* ISO C; GCC, Clang and MSVC all define it as this two's complement shift.)
Shl4Or(v, d) ==
    <<((v[1] * 16) % 65536) + d,
      ((v[2] * 16) % 65536) + (v[1] \div 4096),
      ((v[3] * 16) % 65536) + (v[2] \div 4096),
      ((v[4] * 16) % 65536) + (v[3] \div 4096)>>

\* -v in two's complement: every bit flipped, plus one (-INT64_MIN wraps to
\* INT64_MIN).
I64Neg(v) ==
    LET s1 == (65535 - v[1]) + 1
        s2 == (65535 - v[2]) + (s1 \div 65536)
        s3 == (65535 - v[3]) + (s2 \div 65536)
        s4 == (65535 - v[4]) + (s3 \div 65536)
    IN  <<s1 % 65536, s2 % 65536, s3 % 65536, s4 % 65536>>

\* v * 10 + d on 64 unsigned bits, with the carry out of bit 63.
MulAdd10(v, d) ==
    LET s1 == v[1] * 10 + d
        s2 == v[2] * 10 + (s1 \div 65536)
        s3 == v[3] * 10 + (s2 \div 65536)
        s4 == v[4] * 10 + (s3 \div 65536)
    IN  [v |-> <<s1 % 65536, s2 % 65536, s3 % 65536, s4 % 65536>>,
         carry |-> (s4 \div 65536) # 0]

isdigit(c) == c \in 48..57

ERANGE == 34
EINVAL == 22

\* The string strncpy(str2conv, string, length); str2conv[length] = 0 leaves:
\* the bytes of the slice before its first zero byte.
RECURSIVE Str2conv(_, _, _)
Str2conv(string, length, i) ==
    IF i < length /\ i < Len(string) /\ string[i + 1] # 0
    THEN <<string[i + 1]>> \o Str2conv(string, length, i + 1)
    ELSE <<>>

RECURSIVE SkipWhite(_, _)
SkipWhite(s, i) == IF isspace(SrcAt(s, i)) THEN SkipWhite(s, i + 1) ELSE i

\* The digits from offset i: the magnitude on 64 bits, whether it left 64
\* bits, and the offset after the last digit.
RECURSIVE DigitRun(_, _, _, _)
DigitRun(s, i, acc, ovf) ==
    IF isdigit(SrcAt(s, i))
    THEN LET r == MulAdd10(acc, SrcAt(s, i) - CH_ZERO)
         IN  DigitRun(s, i + 1, r.v, ovf \/ r.carry)
    ELSE [mag |-> acc, ovf |-> ovf, end |-> i]

\* strtoll(s, &eptr, 10): white space is skipped, then an optional sign, then
\* decimal digits. Without a digit nothing is converted: the result is 0 and
\* eptr = s (some C libraries then set errno to EINVAL, others leave it). A
\* value outside the int64_t range gives LLONG_MAX or LLONG_MIN and ERANGE.
strtoll(s, lc) ==
    LET i == SkipWhite(s, 0)
        neg == SrcAt(s, i) = 45
        j == IF SrcAt(s, i) \in {43, 45} THEN i + 1 ELSE i
        r == DigitRun(s, j, I64Zero, FALSE)
        fits == /\ ~r.ovf
                /\ \/ r.mag[4] < 32768
                   \/ neg /\ r.mag = I64Min
    IN  IF r.end = j
        THEN [result |-> I64Zero, eptr |-> 0,
              errno |-> IF lc.einval_noconv THEN EINVAL ELSE 0]
        ELSE IF ~fits
        THEN [result |-> IF neg THEN I64Min ELSE I64Max, eptr |-> r.end, errno |-> ERANGE]
        ELSE [result |-> IF neg THEN I64Neg(r.mag) ELSE r.mag, eptr |-> r.end, errno |-> 0]

\* A parser whose length limit counts the digits of INT32_MAX.
decatoi_len9(string, length, value, lc) ==
    IF length > 9 THEN [ret |-> 0, value |-> value]
    ELSE LET str2conv == Str2conv(string, length, 0)
             r == strtoll(str2conv, lc)
         IN  IF r.errno = EINVAL \/ r.errno = ERANGE THEN [ret |-> 0, value |-> value]
             ELSE IF r.eptr # length THEN [ret |-> 0, value |-> value]
             ELSE [ret |-> 1, value |-> r.result]

\* value is the caller's *value on entry; the result holds it on return.
decatoi(string, length, value, lc) ==
    IF length > 20 THEN [ret |-> 0, value |-> value]
    ELSE LET str2conv == Str2conv(string, length, 0)
             r == strtoll(str2conv, lc)
         IN  IF r.errno = EINVAL \/ r.errno = ERANGE THEN [ret |-> 0, value |-> value]
             ELSE IF r.eptr # length THEN [ret |-> 0, value |-> value]
             ELSE IF SrcAt(str2conv, r.eptr) # 0 THEN [ret |-> 0, value |-> value]
             ELSE [ret |-> 1, value |-> r.result]

\* The digit a hex character stands for (the three digit cases of the switch).
HexDigit(c) ==
    IF c \in 48..57 THEN c - 48
    ELSE IF c \in 65..70 THEN c + 10 - 65
    ELSE c + 10 - 97

IsHexChar(c) == c \in (48..57) \cup (65..70) \cup (97..102)

\* A sign that is kept once set: the first sign wins.
HexSign_first(sign, c) == IF sign # 0 THEN sign ELSE IF c = 45 THEN -1 ELSE 1

\* case '-': sign = -1;  case '+': sign = 1;
HexSign(sign, c) == IF c = 45 THEN -1 ELSE 1

RECURSIVE HexLoop(_, _, _, _, _, _)
HexLoop(string, length, i, value, sign, retcode) ==
    IF i < length
    THEN LET c == string[i + 1]
         IN  IF IsHexChar(c)
             THEN HexLoop(string, length, i + 1, Shl4Or(value, HexDigit(c)), sign, retcode)
             ELSE IF c = 32
             THEN HexLoop(string, length, i + 1, value, sign, 4)
             ELSE IF c \in {43, 45}
             THEN HexLoop(string, length, i + 1, value, HexSign(sign, c), 4)
             ELSE [ret |-> 1, value |-> value]
    ELSE [ret |-> retcode, value |-> IF sign = -1 THEN I64Neg(value) ELSE value]

\* A parser that hands back the caller's *value when it fails.
hexatoi_keepout(string, length, value) ==
    LET r == HexLoop(string, length, 0, I64Zero, 0, 0)
    IN  IF r.ret = 1 THEN [ret |-> 1, value |-> value] ELSE r

\* *value = 0 first, whatever the caller had there.
hexatoi(string, length, value) == HexLoop(string, length, 0, I64Zero, 0, 0)

(***************************************************************************)
(* safe_gets(). A stream is its bytes and the read position.               *)
(***************************************************************************)
LF == 10
CR == 13

\* fgets(buf, n, stream): at most n - 1 bytes, stopping after a newline or at
\* end of file; null when n < 1, or at end of file with nothing read.
RECURSIVE FgetsLoop(_, _, _, _, _)
FgetsLoop(m, i, n, data, p) ==
    IF i < n - 1 /\ p < Len(data)
    THEN IF data[p + 1] = LF
         THEN [m |-> Store(m, i, LF), i |-> i + 1, pos |-> p + 1]
         ELSE FgetsLoop(Store(m, i, data[p + 1]), i + 1, n, data, p + 1)
    ELSE [m |-> m, i |-> i, pos |-> p]

fgets(m, n, data, p) ==
    IF n < 1 THEN [null |-> TRUE, m |-> m, pos |-> p]
    ELSE IF n = 1 THEN [null |-> FALSE, m |-> Store(m, 0, 0), pos |-> p]
    ELSE LET r == FgetsLoop(m, 0, n, data, p)
         IN  IF r.i = 0 THEN [null |-> TRUE, m |-> m, pos |-> p]
             ELSE [null |-> FALSE, m |-> Store(r.m, r.i, 0), pos |-> r.pos]

\* strcspn(buf, "\r\n")
RECURSIVE Strcspn(_, _, _)
Strcspn(mem, i, reject) ==
    IF i \in DOMAIN mem /\ mem[i] # 0 /\ mem[i] \notin reject
    THEN Strcspn(mem, i + 1, reject) ELSE i

\* while ((ch = fgetc(stream)) != '\n' && ch != EOF);
RECURSIVE SkipLine(_, _)
SkipLine(data, p) ==
    IF p >= Len(data) THEN p
    ELSE IF data[p + 1] = LF THEN p + 1
    ELSE SkipLine(data, p + 1)

\* A reader that looks for '\n' only, and leaves the CR of a CR-LF behind.
safe_gets_lfonly(m, bnull, buf_size, data, p) ==
    IF bnull \/ buf_size = 0 THEN [null |-> TRUE, m |-> m, pos |-> p]
    ELSE LET f == fgets(m, buf_size, data, p)
         IN  IF f.null THEN [null |-> TRUE, m |-> f.m, pos |-> f.pos]
             ELSE LET len == Strcspn(f.m.mem, 0, {LF})
                      m1 == Store(f.m, len, 0)
                  IN  [null |-> FALSE, m |-> m1,
                       pos |-> IF len = buf_size - 1 /\ Load(m1, len) # 0
                               THEN SkipLine(data, f.pos) ELSE f.pos]

\* The test that guards the discarding loop reads buf[len] after buf[len] = 0
\* was stored.
safe_gets(m, bnull, buf_size, data, p) ==
    IF bnull \/ buf_size = 0 THEN [null |-> TRUE, m |-> m, pos |-> p]
    ELSE LET f == fgets(m, buf_size, data, p)
         IN  IF f.null THEN [null |-> TRUE, m |-> f.m, pos |-> f.pos]
             ELSE LET len == Strcspn(f.m.mem, 0, {CR, LF})
                      m1 == Store(f.m, len, 0)
                  IN  [null |-> FALSE, m |-> m1,
                       pos |-> IF len = buf_size - 1 /\ Load(m1, len) # 0
                               THEN SkipLine(data, f.pos) ELSE f.pos]

(***************************************************************************)
(* safe_strtok(): the platform's strtok_r (strtok_s). A pointer into the   *)
(* buffer is an offset; NULLP is the null pointer.                         *)
(***************************************************************************)
NULLP == -1

\* s + strspn(s, delim)
RECURSIVE Strspn(_, _, _)
Strspn(mem, i, accept) ==
    IF i \in DOMAIN mem /\ mem[i] # 0 /\ mem[i] \in accept
    THEN Strspn(mem, i + 1, accept) ELSE i

\* strtok_r(str, delim, save_ptr): resume at *save_ptr when str is null; skip
\* the leading delimiters; no token if the string ends there; else the token
\* runs to the next delimiter, which is overwritten with zero.
strtok_r(mem, str, delims, save) ==
    LET s0 == IF str = NULLP THEN save ELSE str
        s == Strspn(mem, s0, delims)
        e == Strcspn(mem, s, delims)
    IN  IF mem[s] = 0 THEN [mem |-> mem, save |-> s, tok |-> NULLP]
        ELSE IF mem[e] = 0 THEN [mem |-> mem, save |-> e, tok |-> s]
        ELSE [mem |-> [mem EXCEPT ![e] = 0], save |-> e + 1, tok |-> s]

\* A tokenizer that does not skip the delimiters before a token.
safe_strtok_noskip(mem, str, delims, save) ==
    LET s == IF str = NULLP THEN save ELSE str
        e == Strcspn(mem, s, delims)
    IN  IF mem[s] = 0 THEN [mem |-> mem, save |-> s, tok |-> NULLP]
        ELSE IF mem[e] = 0 THEN [mem |-> mem, save |-> e, tok |-> s]
        ELSE [mem |-> [mem EXCEPT ![e] = 0], save |-> e + 1, tok |-> s]

safe_strtok(mem, str, delims, save) == strtok_r(mem, str, delims, save)

(***************************************************************************)
(* The buffer primitives as a state machine: a caller holds a destination  *)
(* object (pre is its content before the call), a source string and a      *)
(* capacity, and calls one primitive.                                      *)
(***************************************************************************)
CharSet == {32, 65, 98}                            \* ' ', 'A', 'b'
ExampleStrs == {<<65, 66, 67, 68, 69>>}            \* "ABCDE"
SrcStrs == SeqsUpTo(CharSet, MaxLen) \cup ExampleStrs

\* Calls with a longer source and a capacity of their own:
\* "0123456789" into 5 bytes, "  hi  " into 16 bytes, a string with each of
\* the six white-space characters around "A b", and one of white space only.
ExampleCalls ==
    {[src |-> <<48, 49, 50, 51, 52, 53, 54, 55, 56, 57>>, cap |-> 5],
     [src |-> <<32, 32, 104, 105, 32, 32>>, cap |-> 16],
     [src |-> <<9, 10, 65, 32, 98, 13, 11, 12>>, cap |-> 16],
     [src |-> <<32, 9, 10, 11, 12, 13>>, cap |-> 16]}

\* The calls drawn: every short source with every small capacity, and the
\* examples.
Calls == {[src |-> s, cap |-> c] : s \in SrcStrs, c \in 0..MaxCap} \cup ExampleCalls

\* The destination object has at least cap bytes.
PhysFor(c) == IF c + Slack > PhysLen THEN c + Slack ELSE PhysLen

\* The string a destination holds on entry: 'd', ' ', 'd', ... of length L.
DstPattern(L) == [i \in 1..L |-> IF i % 2 = 1 THEN 100 ELSE 32]

\* 0, 7, 42, 12345, 4294967295
NSmall == {U32(0, 0), U32(0, 7), U32(0, 42), U32(0, 12345), U32(65535, 65535)}

ArgsNone ==
    [mode |-> 0, ch |-> 0, newch |-> 0, skipends |-> FALSE, position |-> 0,
     length |-> 0, n |-> U32(0, 0), dnull |-> FALSE, snull |-> FALSE, cap2 |-> 0,
     wid |-> 0, reads |-> {}]

\* dest and src of a copy-and-edit call: both valid, or one or both null.
NullCases == {<<FALSE, FALSE>>, <<TRUE, FALSE>>, <<FALSE, TRUE>>, <<TRUE, TRUE>>}

\* What the caller's int64_t holds before a parser is called.
OutPrev == <<43981, 0, 0, 0>>

NumIdle ==
    /\ slice = <<>>
    /\ out = OutPrev
    /\ ret = 0
    /\ libc = [einval_noconv |-> FALSE]

LineIdle ==
    /\ stream = <<>>
    /\ pos = 0
    /\ prevpos = 0
    /\ lbuf = Fresh(MemOf(<<>>, 1))
    /\ outs = <<>>

TokIdle ==
    /\ tbuf = <<>>
    /\ torig = <<>>
    /\ tsave = <<>>
    /\ ttoks = <<>>
    /\ tdone = <<>>
    /\ delim = {}

BufIdle ==
    /\ pc = "idle"
    /\ op = "none"
    /\ src = <<>>
    /\ cap = 0
    /\ pre = MemOf(<<>>, 1)
    /\ dst = Fresh(MemOf(<<>>, 1))
    /\ dst2 = Fresh(MemOf(<<>>, 1))
    /\ args = ArgsNone

Init ==
    /\ pc = "ready"
    /\ op = "none"
    /\ \E c \in Calls :
        /\ src = c.src
        /\ cap = c.cap
        /\ pre \in {MemOf(DstPattern(L), PhysFor(c.cap)) : L \in 0..MaxLen}
    /\ dst = Fresh(pre)
    /\ dst2 = Fresh([i \in 0..(PhysLen - 1) |-> JUNK])
    /\ args = ArgsNone
    /\ NumIdle /\ LineIdle /\ TokIdle

Called(name, m, a) ==
    /\ pc = "ready"
    /\ pc' = "done"
    /\ op' = name
    /\ dst' = m
    /\ args' = a
    /\ UNCHANGED <<pre, dst2, src, cap, numVars, lineVars, tokVars>>

Strzcpy == Called("strzcpy", strzcpy(dst, src, cap), ArgsNone)

\* A second copy, from the string the first left in dst into another object.
StrzcpyAgain ==
    /\ pc = "done"
    /\ op = "strzcpy"
    /\ ~dst.fault
    /\ \E c2 \in 0..MaxCap :
        /\ dst2' = strzcpy(dst2, CStr(dst.mem), c2)
        /\ args' = [args EXCEPT !.cap2 = c2]
    /\ op' = "strzcpy2"
    /\ UNCHANGED <<pc, dst, pre, src, cap, numVars, lineVars, tokVars>>

Strzcat == Called("strzcat", strzcat(dst, src, cap), ArgsNone)

Numzcat ==
    \E n \in NSmall :
        Called("numzcat", numzcat(dst, n, cap), [ArgsNone EXCEPT !.n = n])

TrimSafeCopy ==
    \E nc \in NullCases :
    \E mode \in IF nc = <<FALSE, FALSE>> THEN {MODE_L, MODE_R, MODE_B} ELSE {MODE_B} :
        Called("trim_safe_copy",
               trim_safe_copy(dst, nc[1], src, nc[2], cap, mode),
               [ArgsNone EXCEPT !.mode = mode, !.dnull = nc[1], !.snull = nc[2]])

\* trim_inplace once more, on the string trim_safe_copy left in dst; the
\* outcome is kept in dst2.
TrimAgain ==
    /\ pc = "done"
    /\ op = "trim_safe_copy"
    /\ ~args.dnull
    /\ ~dst.fault
    /\ dst2' = trim_inplace(Fresh(dst.mem), FALSE, args.mode)
    /\ op' = "trim_inplace"
    /\ UNCHANGED <<pc, dst, pre, src, cap, args, numVars, lineVars, tokVars>>

ReplaceCharSafeCopy ==
    \E nc \in NullCases :
    \E ch \in IF nc = <<FALSE, FALSE>> THEN CharSet \cup {0} ELSE {32} :
    \E newch \in IF nc = <<FALSE, FALSE>> THEN CharSet \cup {0} ELSE {65} :
    \E skipends \in IF nc = <<FALSE, FALSE>> THEN BOOLEAN ELSE {FALSE} :
        Called("replace_char_safe_copy",
               replace_char_safe_copy(dst, nc[1], src, nc[2], cap, ch, newch, skipends),
               [ArgsNone EXCEPT !.ch = ch, !.newch = newch, !.skipends = skipends,
                                !.dnull = nc[1], !.snull = nc[2]])

SubstringSafeCopy ==
    \E nc \in NullCases :
    \E position \in IF nc = <<FALSE, FALSE>> THEN 0..(MaxLen + 1) ELSE {0} :
    \E length \in IF nc = <<FALSE, FALSE>> THEN 0..(MaxLen + 1) ELSE {1} :
        Called("substring_safe_copy",
               substring_safe_copy(dst, nc[1], src, nc[2], cap, position, length),
               [ArgsNone EXCEPT !.position = position, !.length = length,
                                !.dnull = nc[1], !.snull = nc[2],
                                !.reads = substring_reads(nc[1], src, nc[2], cap,
                                                          position, length)])

MakelowerSafeCopy ==
    \E nc \in NullCases :
        Called("makelower_safe_copy",
               makelower_safe_copy(dst, nc[1], src, nc[2], cap),
               [ArgsNone EXCEPT !.dnull = nc[1], !.snull = nc[2]])

Next ==
    \/ Strzcpy
    \/ StrzcpyAgain
    \/ Strzcat
    \/ Numzcat
    \/ TrimSafeCopy
    \/ TrimAgain
    \/ ReplaceCharSafeCopy
    \/ SubstringSafeCopy
    \/ MakelowerSafeCopy

Spec == Init /\ [][Next]_vars

(***************************************************************************)
(* Properties of the buffer primitives.                                    *)
(***************************************************************************)
CapOps == {"strzcpy", "strzcat", "numzcat", "trim_safe_copy",
           "replace_char_safe_copy", "substring_safe_copy", "makelower_safe_copy"}

EntryLen == Len(CStr(pre))

\* The call the state records is one the capacity rule speaks about: a
\* destination object exists, and a concatenation entered with a string
\* shorter than cap.
CapRuleCase ==
    /\ pc = "done"
    /\ op \in CapOps
    /\ ~args.dnull
    /\ (op \in {"strzcat", "numzcat"} => EntryLen < cap)

\* C1: after any capacity-taking primitive, with cap = 0 the destination is
\* byte-identical to its content before the call; with cap >= 1 some index
\* below cap holds a zero byte; and no index >= cap was written (nor any
\* byte outside the object).
C1_CapacityRule ==
    CapRuleCase =>
        /\ (cap = 0 => dst.mem = pre /\ dst.w = {})
        /\ (cap >= 1 => HasZeroBelow(dst.mem, cap))
        /\ \A i \in dst.w : i >= 0 /\ i < cap
        /\ ~dst.fault
        /\ \A i \in DOMAIN pre : i >= cap => dst.mem[i] = pre[i]

\* A truncating call: the source is longer than cap - 1 and bytes were stored.
C1_Witness ==
    /\ CapRuleCase
    /\ op = "trim_safe_copy"
    /\ ~args.snull
    /\ cap >= 2
    /\ Len(src) > cap - 1
    /\ Cardinality(dst.w) >= cap

\* C4: strzcpy with cap >= 1 leaves the longest prefix of src of length
\* min(strlen(src), cap - 1) followed by a zero byte; and when both
\* capacities are at least strlen(s) + 1, copying s into a and a into b
\* leaves a = b = s; "ABCDE" copied with cap 3 gives "AB".
C4_StrzcpyPrefix ==
    /\ (pc = "done" /\ op \in {"strzcpy", "strzcpy2"} /\ cap >= 1) =>
            /\ CStr(dst.mem) = Take(src, cap - 1)
            /\ dst.mem[Min(Len(src), cap - 1)] = 0
            /\ \A i \in 0..(Min(Len(src), cap - 1) - 1) : dst.mem[i] = src[i + 1]
    /\ (pc = "done" /\ op = "strzcpy2" /\ cap >= Len(src) + 1 /\ args.cap2 >= Len(src) + 1) =>
            /\ CStr(dst.mem) = src
            /\ CStr(dst2.mem) = src
    /\ (pc = "done" /\ op = "strzcpy" /\ cap = 3 /\ src = <<65, 66, 67, 68, 69>>) =>
            /\ CStr(dst.mem) = <<65, 66>>
            /\ dst.mem[2] = 0

\* A string of the greatest length drawn, copied in full and copied again.
C4_Witness ==
    /\ pc = "done" /\ op = "strzcpy2"
    /\ Len(src) = MaxLen /\ cap = MaxLen + 1 /\ args.cap2 = MaxLen + 1
    /\ CStr(dst2.mem) = src

\* C5: strzcat on a destination holding a string of length L < cap, with
\* cap >= 2, leaves the old content, then the first min(strlen(src),
\* cap - 1 - L) bytes of src, then a zero byte; the old content is not
\* written; with cap <= 1 nothing at all is written.
C5_StrzcatAppend ==
    (pc = "done" /\ op = "strzcat") =>
        /\ (cap >= 2 /\ EntryLen < cap) =>
            /\ CStr(dst.mem) = CStr(pre) \o Take(src, cap - 1 - EntryLen)
            /\ Len(CStr(dst.mem)) <= cap - 1
            /\ dst.mem[EntryLen + Min(Len(src), cap - 1 - EntryLen)] = 0
            /\ \A i \in 0..(EntryLen - 1) : i \notin dst.w /\ dst.mem[i] = pre[i]
        /\ (cap <= 1 => dst.w = {} /\ dst.mem = pre)

\* A concatenation that appends some but not all of src.
C5_Witness ==
    /\ pc = "done" /\ op = "strzcat"
    /\ cap >= 2 /\ EntryLen >= 1 /\ EntryLen < cap
    /\ Len(src) > cap - 1 - EntryLen
    /\ cap - 1 - EntryLen >= 1
    /\ Len(CStr(dst.mem)) = cap - 1

CopyEditOps == {"trim_safe_copy", "replace_char_safe_copy", "substring_safe_copy",
                "makelower_safe_copy"}

\* C11: a copy-and-edit variant called with a null dst, a null src or
\* cap = 0 never stores through a null address or outside the object; with a
\* null dst or cap = 0 it stores nothing at all; and with a non-null dst,
\* cap >= 1 and a null src it leaves dst the empty string.
C11_NullSafeNoOp ==
    (pc = "done" /\ op \in CopyEditOps /\ (args.dnull \/ args.snull \/ cap = 0)) =>
        /\ ~dst.fault
        /\ (args.dnull \/ cap = 0) => (dst.w = {} /\ dst.mem = pre)
        /\ (~args.dnull /\ cap >= 1 /\ args.snull) => (CStr(dst.mem) = <<>> /\ dst.w = {0})

\* The same for the three variants whose null branch tests dest before the
\* store (trim_safe_copy, substring_safe_copy, makelower_safe_copy).
NullSafeGuarded ==
    (pc = "done" /\ op \in CopyEditOps \ {"replace_char_safe_copy"}
                /\ (args.dnull \/ args.snull \/ cap = 0)) =>
        /\ ~dst.fault
        /\ (args.dnull \/ cap = 0) => (dst.w = {} /\ dst.mem = pre)
        /\ (~args.dnull /\ cap >= 1 /\ args.snull) => (CStr(dst.mem) = <<>> /\ dst.w = {0})

SubstringCase ==
    /\ pc = "done" /\ op = "substring_safe_copy"
    /\ ~args.dnull /\ ~args.snull
    /\ cap >= 1

\* C12: substring_safe_copy with non-null arguments and cap >= 1, where
\* L = strlen(src): with pos >= L dst is the empty string; otherwise dst holds
\* the k = min(len, L - pos, cap - 1) bytes src[pos .. pos + k - 1] and then a
\* zero byte, nothing else of dst is stored to, and no offset of src beyond L
\* is read.
C12_SubstringExact ==
    SubstringCase =>
        LET L == Len(src)
            p == args.position
            k == Min(args.length, Min(L - p, cap - 1))
        IN  /\ ~dst.fault
            /\ IF p >= L
               THEN CStr(dst.mem) = <<>> /\ dst.w = {0}
               ELSE /\ \A i \in 0..(k - 1) : dst.mem[i] = src[p + i + 1]
                    /\ dst.mem[k] = 0
                    /\ CStr(dst.mem) = SubSeq(src, p + 1, p + k)
                    /\ dst.w = 0..k
            /\ \A i \in DOMAIN pre : i \notin dst.w => dst.mem[i] = pre[i]
            /\ \A r \in args.reads : r >= 0 /\ r <= L

\* A substring that ends where src ends: fewer bytes than asked for and fewer
\* than dst could take.
C12_Witness ==
    /\ SubstringCase
    /\ args.position >= 1 /\ args.position < Len(src)
    /\ Len(src) - args.position < args.length
    /\ Len(src) - args.position < cap - 1
    /\ Len(CStr(dst.mem)) = Len(src) - args.position
    /\ Len(src) \in args.reads

\* substring_safe_copy(dst, "0123456789", 5, 3, 4)
S3Case ==
    /\ SubstringCase
    /\ src = <<48, 49, 50, 51, 52, 53, 54, 55, 56, 57>>
    /\ cap = 5
    /\ args.position = 3
    /\ args.length = 4

\* C13 as stated: the call leaves dst = "345".
C13_S3Yields345 ==
    S3Case => CStr(dst.mem) = <<51, 52, 53>>

\* C13: substring_safe_copy(dst, "0123456789", 5, 3, 4) leaves dst = "3456",
\* the four bytes asked for, which is also cap - 1.
C13_S3Yields3456 ==
    S3Case => (CStr(dst.mem) = <<51, 52, 53, 54>> /\ dst.mem[4] = 0 /\ dst.w = 0..4)

\* The call of the example has returned, with dst filled up to its capacity.
C13_Witness ==
    /\ S3Case
    /\ Len(CStr(dst.mem)) = cap - 1

\* space, tab, LF, CR, VT, FF
AsciiWhite == {32, 9, 10, 13, 11, 12}

\* s without its leading and trailing white space.
TrimmedBoth(s) ==
    LET keep == {i \in 1..Len(s) : s[i] \notin AsciiWhite}
    IN  IF keep = {} THEN <<>>
        ELSE SubSeq(s, CHOOSE i \in keep : \A j \in keep : i <= j,
                       CHOOSE i \in keep : \A j \in keep : i >= j)

\* trim_inplace in 'b' mode has run on the copy of src in dst (once for
\* trim_safe_copy, and once more into dst2 for trim_inplace).
TrimBothCase ==
    /\ pc = "done" /\ op \in {"trim_safe_copy", "trim_inplace"}
    /\ ~args.dnull /\ ~args.snull
    /\ cap >= 1
    /\ args.mode = MODE_B

\* C14: trim_inplace in both-sides mode leaves the string without its leading
\* and trailing ASCII white space, every other byte kept in order (a string
\* of white space only becomes empty); applied again it changes nothing; and
\* trim_safe_copy(dst, "  hi  ", 16, 'b') gives "hi".
C14_TrimBothIdempotent ==
    TrimBothCase =>
        LET r == CStr(dst.mem)
        IN  /\ r = TrimmedBoth(Take(src, cap - 1))
            /\ r # <<>> => (r[1] \notin AsciiWhite /\ r[Len(r)] \notin AsciiWhite)
            /\ op = "trim_inplace" => (dst2.mem = dst.mem /\ ~dst2.fault)
            /\ (src = <<32, 32, 104, 105, 32, 32>> /\ cap = 16) => r = <<104, 105>>

\* TAB LF "A b" CR VT FF trimmed to "A b", and trimmed once more.
C14_Witness ==
    /\ TrimBothCase
    /\ op = "trim_inplace"
    /\ src = <<9, 10, 65, 32, 98, 13, 11, 12>>
    /\ cap = 16
    /\ CStr(dst2.mem) = <<65, 32, 98>>

ReplaceCase ==
    /\ pc = "done" /\ op = "replace_char_safe_copy"
    /\ ~args.dnull /\ ~args.snull
    /\ cap >= 1

\* The string replace_char_inplace was applied to is the copy strzcpy made,
\* s0. Its length is kept, each position that held ch now holds newch (the
\* first and the last excepted under skipends), every other position is as
\* it was, and with newch = ch and no skipends a full copy equals src.
ReplaceFrame ==
    LET s0 == Take(src, cap - 1)
        n == Len(s0)
    IN  /\ Len(CStr(dst.mem)) = n
        /\ \A i \in 1..n :
              dst.mem[i - 1] = IF s0[i] = args.ch /\ ~(args.skipends /\ (i = 1 \/ i = n))
                               THEN args.newch ELSE s0[i]
        /\ dst.mem[n] = 0
        /\ (args.ch = args.newch /\ ~args.skipends /\ cap > Len(src)) => CStr(dst.mem) = src

\* C15: replace_char_inplace, for every string and every pair of bytes c, c',
\* leaves the length unchanged and changes only positions that held c, each to
\* c'; with skipends the first and the last byte stay; and
\* replace_char_safe_copy with c' = c and no skipends yields a copy of src.
C15_ReplaceFrame ==
    ReplaceCase => ReplaceFrame

\* The frame holds whenever the replacement byte is not the zero byte.
ReplaceFrameNonZero ==
    (ReplaceCase /\ args.newch # 0) => ReplaceFrame

\* A replacement by the zero byte that cut the string short.
ReplaceCutShort ==
    /\ ReplaceCase
    /\ args.newch = 0 /\ args.ch # 0
    /\ Len(CStr(dst.mem)) < Len(Take(src, cap - 1))

(***************************************************************************)
(* The numeric primitives as a state machine: from the ready state a       *)
(* caller renders a number (fitoa, numzcat) or parses a slice (decatoi,    *)
(* hexatoi); the text numzcat left can then be handed to decatoi.          *)
(***************************************************************************)
MaxSliceLen == 3   \* longest slice drawn from NumChars
MaxN == 20         \* the numbers 0..MaxN are all drawn
NumCap == 12       \* largest capacity and field width drawn

NumPhys == NumCap + Slack

\* '0' '1' '9' 'f' ' ' '+' '-' 'x' TAB NUL
NumChars == {48, 49, 57, 102, 32, 43, 45, 120, 9, 0}

DecExamples ==
    {
      \* "-9223372036854775808"
      <<45, 57, 50, 50, 51, 51, 55, 50, 48, 51, 54, 56, 53, 52, 55, 55, 53, 56, 48, 56>>,
      \* "9223372036854775807"
      <<57, 50, 50, 51, 51, 55, 50, 48, 51, 54, 56, 53, 52, 55, 55, 53, 56, 48, 55>>,
      \* "9223372036854775808"
      <<57, 50, 50, 51, 51, 55, 50, 48, 51, 54, 56, 53, 52, 55, 55, 53, 56, 48, 56>>,
      \* "-9223372036854775809"
      <<45, 57, 50, 50, 51, 51, 55, 50, 48, 51, 54, 56, 53, 52, 55, 55, 53, 56, 48, 57>>,
      \* "99999999999999999999"
      <<57, 57, 57, 57, 57, 57, 57, 57, 57, 57, 57, 57, 57, 57, 57, 57, 57, 57, 57, 57>>,
      \* "000000000000000000042"
      <<48, 48, 48, 48, 48, 48, 48, 48, 48, 48, 48, 48, 48, 48, 48, 48, 48, 48, 48, 52, 50>>,
      \* "00000000000000000042"
      <<48, 48, 48, 48, 48, 48, 48, 48, 48, 48, 48, 48, 48, 48, 48, 48, 48, 48, 52, 50>>,
      \* "123abc"
      <<49, 50, 51, 97, 98, 99>>,
      \* "+9223372036854775807"
      <<43, 57, 50, 50, 51, 51, 55, 50, 48, 51, 54, 56, 53, 52, 55, 55, 53, 56, 48, 55>>,
      \* "4294967295"
      <<52, 50, 57, 52, 57, 54, 55, 50, 57, 53>>
    }

HexExamples ==
    {
      \* "  -ff"
      <<32, 32, 45, 102, 102>>,
      \* " 1 2 "
      <<32, 49, 32, 50, 32>>,
      \* "1x"
      <<49, 120>>,
      \* "ffffffffffffffff"
      <<102, 102, 102, 102, 102, 102, 102, 102, 102, 102, 102, 102, 102, 102, 102, 102>>,
      \* "8000000000000000"
      <<56, 48, 48, 48, 48, 48, 48, 48, 48, 48, 48, 48, 48, 48, 48, 48>>,
      \* "-8000000000000000"
      <<45, 56, 48, 48, 48, 48, 48, 48, 48, 48, 48, 48, 48, 48, 48, 48, 48>>,
      \* "123456789abcdef01"
      <<49, 50, 51, 52, 53, 54, 55, 56, 57, 97, 98, 99, 100, 101, 102, 48, 49>>,
      \* "7FFFFFFFFFFFFFFF"
      <<55, 70, 70, 70, 70, 70, 70, 70, 70, 70, 70, 70, 70, 70, 70, 70>>,
      \* "+-1"
      <<43, 45, 49>>,
      \* "-+1"
      <<45, 43, 49>>,
      \* "-123456789abcdef01"
      <<45, 49, 50, 51, 52, 53, 54, 55, 56, 57, 97, 98, 99, 100, 101, 102, 48, 49>>
    }

Slices == SeqsUpTo(NumChars, MaxSliceLen) \cup DecExamples \cup HexExamples

NSet ==
    {U32(0, lo) : lo \in 0..MaxN}
    \cup {U32(hi, lo) : hi \in {0, 1, 15258, 32767, 32768, 65535},
                        lo \in {0, 9, 10, 99, 100, 999, 1000, 9999, 10000, 12345,
                                34463, 51712, 65535}}

\* "" and "total="
EntryStrs == {<<>>, <<116, 111, 116, 97, 108, 61>>}

JunkMem(n) == [i \in 0..(n - 1) |-> JUNK]

InitNum ==
    /\ pc = "ready"
    /\ op = "none"
    /\ src = <<>>
    /\ cap = 0
    /\ pre = JunkMem(NumPhys)
    /\ dst = Fresh(JunkMem(NumPhys))
    /\ dst2 = Fresh(JunkMem(NumPhys))
    /\ args = ArgsNone
    /\ slice = <<>>
    /\ out = OutPrev
    /\ ret = 0
    /\ libc \in {[einval_noconv |-> b] : b \in BOOLEAN}
    /\ LineIdle /\ TokIdle

Decatoi ==
    /\ pc = "ready"
    /\ \E s \in Slices : \E len \in 0..Len(s) :
        LET r == decatoi(s, len, out, libc)
        IN  /\ slice' = s
            /\ args' = [ArgsNone EXCEPT !.length = len]
            /\ ret' = r.ret
            /\ out' = r.value
    /\ pc' = "done"
    /\ op' = "decatoi"
    /\ UNCHANGED <<dst, pre, dst2, src, cap, libc, lineVars, tokVars>>

Hexatoi ==
    /\ pc = "ready"
    /\ \E s \in Slices : \E len \in 0..Len(s) :
        LET r == hexatoi(s, len, out)
        IN  /\ slice' = s
            /\ args' = [ArgsNone EXCEPT !.length = len]
            /\ ret' = r.ret
            /\ out' = r.value
    /\ pc' = "done"
    /\ op' = "hexatoi"
    /\ UNCHANGED <<dst, pre, dst2, src, cap, libc, lineVars, tokVars>>

Fitoa ==
    /\ pc = "ready"
    /\ \E n \in NSet : \E wid \in 0..(NumCap - 1) :
        /\ dst' = fitoa(n, wid, dst)
        /\ args' = [ArgsNone EXCEPT !.n = n, !.wid = wid]
    /\ pc' = "done"
    /\ op' = "fitoa"
    /\ UNCHANGED <<pre, dst2, src, cap, numVars, lineVars, tokVars>>

NumzcatNum ==
    /\ pc = "ready"
    /\ \E n \in NSet : \E c \in 0..NumCap : \E e \in EntryStrs :
        /\ pre' = MemOf(e, NumPhys)
        /\ dst' = numzcat(Fresh(MemOf(e, NumPhys)), n, c)
        /\ cap' = c
        /\ args' = [ArgsNone EXCEPT !.n = n]
    /\ pc' = "done"
    /\ op' = "numzcat"
    /\ UNCHANGED <<dst2, src, numVars, lineVars, tokVars>>

\* decatoi(buf, strlen(buf), &x) on the text numzcat left in buf.
DecatoiText ==
    /\ pc = "done"
    /\ op = "numzcat"
    /\ ~dst.fault
    /\ LET s == CStr(dst.mem)
           r == decatoi(s, Len(s), out, libc)
       IN  /\ slice' = s
           /\ args' = [args EXCEPT !.length = Len(s)]
           /\ ret' = r.ret
           /\ out' = r.value
    /\ op' = "decatoi_text"
    /\ UNCHANGED <<pc, dst, pre, dst2, src, cap, libc, lineVars, tokVars>>

NextNum ==
    \/ Decatoi
    \/ Hexatoi
    \/ Fitoa
    \/ NumzcatNum
    \/ DecatoiText

SpecNum == InitNum /\ [][NextNum]_vars

(***************************************************************************)
(* Properties of the numeric primitives. The expected values are stated    *)
(* on the text: digit strings are compared as decimal numerals, and a      *)
(* numeral names the 64-bit value whose decimal expansion it is.           *)
(***************************************************************************)
SliceBytes == Take(slice, args.length)

\* An optional single leading sign, then decimal digits only.
DecWellFormed(b) ==
    LET k == IF Len(b) >= 1 /\ b[1] \in {43, 45} THEN 1 ELSE 0
    IN  \A i \in (k + 1)..Len(b) : isdigit(b[i])

DecNegative(b) == Len(b) >= 1 /\ b[1] = 45

\* The digits of a well-formed slice, as the numbers 0..9.
DecDigitsOf(b) ==
    LET k == IF Len(b) >= 1 /\ b[1] \in {43, 45} THEN 1 ELSE 0
    IN  [i \in 1..(Len(b) - k) |-> b[i + k] - 48]

RECURSIVE StripZeros(_)
StripZeros(d) == IF Len(d) >= 1 /\ d[1] = 0 THEN StripZeros(Tail(d)) ELSE d

\* a <= b for numerals without leading zeros.
RECURSIVE NumeralLeq(_, _)
NumeralLeq(a, b) ==
    IF Len(a) # Len(b) THEN Len(a) < Len(b)
    ELSE IF Len(a) = 0 THEN TRUE
    ELSE IF a[1] # b[1] THEN a[1] < b[1]
    ELSE NumeralLeq(Tail(a), Tail(b))

\* 9223372036854775807 and 9223372036854775808
Int64MaxNumeral == <<9, 2, 2, 3, 3, 7, 2, 0, 3, 6, 8, 5, 4, 7, 7, 5, 8, 0, 7>>
Int64MinNumeral == <<9, 2, 2, 3, 3, 7, 2, 0, 3, 6, 8, 5, 4, 7, 7, 5, 8, 0, 8>>

DecInRange(b) ==
    NumeralLeq(StripZeros(DecDigitsOf(b)),
               IF DecNegative(b) THEN Int64MinNumeral ELSE Int64MaxNumeral)

\* The value of a numeral that fits in 64 bits, by Horner's rule.
RECURSIVE Horner(_, _)
Horner(d, acc) == IF d = <<>> THEN acc ELSE Horner(Tail(d), MulAdd10(acc, d[1]).v)

DecValue(b) ==
    IF DecNegative(b) THEN I64Neg(Horner(DecDigitsOf(b), I64Zero))
    ELSE Horner(DecDigitsOf(b), I64Zero)

\* C6: decatoi returns false for every slice of at most 20 bytes that is
\* not an optional single sign followed by decimal digits only (so for one
\* that begins with white space), false when len > 20 or the value is
\* outside the int64_t range, and otherwise true with the exact value,
\* the empty slice giving true and 0. (Stated for a C library that leaves
\* errno alone when strtoll converts nothing, where the empty slice is
\* accepted as the claim says.)
C6_DecatoiStrict ==
    (pc = "done" /\ op = "decatoi" /\ ~libc.einval_noconv) =>
        LET b == SliceBytes
        IN  /\ (args.length > 20 => ret = 0)
            /\ (args.length <= 20 /\ ~DecWellFormed(b) => ret = 0)
            /\ (args.length <= 20 /\ DecWellFormed(b) /\ ~DecInRange(b) => ret = 0)
            /\ (args.length <= 20 /\ DecWellFormed(b) /\ DecInRange(b)
                    /\ (b = <<>> \/ Len(DecDigitsOf(b)) >= 1)
                => ret = 1 /\ out = DecValue(b))

\* What the code does instead: the white space strtoll skips is accepted,
\* and the empty slice is refused by a C library that reports EINVAL when
\* nothing was converted.
DecAccepted(b) ==
    LET rest == SubSeq(b, SkipWhite(b, 0) + 1, Len(b))
    IN  /\ DecWellFormed(rest) /\ DecInRange(rest)
        /\ \/ Len(DecDigitsOf(rest)) >= 1
           \/ b = <<>> /\ ~libc.einval_noconv

\* decatoi accepts exactly these slices, and leaves *value alone otherwise.
DecatoiActual ==
    (pc = "done" /\ op = "decatoi") =>
        LET b == SliceBytes
            rest == SubSeq(b, SkipWhite(b, 0) + 1, Len(b))
        IN  IF args.length <= 20 /\ DecAccepted(b)
            THEN ret = 1 /\ out = DecValue(rest)
            ELSE ret = 0 /\ out = OutPrev

\* " 1": a slice that begins with a space, accepted with value 1.
DecatoiSpaceAccepted ==
    /\ pc = "done" /\ op = "decatoi"
    /\ SliceBytes = <<32, 49>>
    /\ ret = 1
    /\ out = <<1, 0, 0, 0>>

HexAllowed(c) == IsHexChar(c) \/ c \in {32, 43, 45}

\* The last sign character of the slice is '-'.
LastSignMinus(b) ==
    \E i \in 1..Len(b) : b[i] = 45 /\ \A j \in (i + 1)..Len(b) : b[j] \notin {43, 45}

HexVal(c) ==
    IF c \in 48..57 THEN c - 48 ELSE IF c \in 65..70 THEN c - 55 ELSE c - 87

Pow16(k) == IF k = 0 THEN 1 ELSE IF k = 1 THEN 16 ELSE IF k = 2 THEN 256 ELSE 4096

RECURSIVE SumOver(_, _)
SumOver(f, S) ==
    IF S = {} THEN 0
    ELSE LET x == CHOOSE y \in S : TRUE IN f[x] + SumOver(f, S \ {x})

\* The 64-bit value of a string of hex digits: digit number j from the right
\* (from 0) weighs 16^j, and the digits from number 16 on are lost.
HexFold(h) ==
    [limb \in 1..4 |->
        LET js == {j \in 0..15 : j < Len(h) /\ j \div 4 = limb - 1}
        IN  SumOver([j \in js |-> HexVal(h[Len(h) - j]) * Pow16(j % 4)], js)]

HexPrefixDigits(b) ==
    LET bad == {i \in 1..Len(b) : ~HexAllowed(b[i])}
        k == CHOOSE i \in bad : \A j \in bad : i <= j
    IN  SelectSeq(SubSeq(b, 1, k - 1), IsHexChar)

\* C16: a decatoi call that returns false leaves *out as the caller had it;
\* a hexatoi call that returns 1 leaves in *out the fold of the hex digits
\* before the offending byte, not negated (0 if there were none), whatever
\* the caller had there.
C16_OutOnFailure ==
    /\ (pc = "done" /\ op \in {"decatoi", "decatoi_text"} /\ ret = 0) => out = OutPrev
    /\ (pc = "done" /\ op = "hexatoi" /\ ret = 1) =>
            /\ out = HexFold(HexPrefixDigits(SliceBytes))
            /\ HexPrefixDigits(SliceBytes) = <<>> => (out = I64Zero /\ out # OutPrev)

\* "-1x" refused by hexatoi: *out holds 1, the sign not applied.
C16_Witness ==
    /\ pc = "done" /\ op = "hexatoi"
    /\ SliceBytes = <<45, 49, 120>>
    /\ ret = 1
    /\ out = <<1, 0, 0, 0>>

\* "x" refused by decatoi: *out still holds the caller's value.
DecatoiKeepsOut ==
    /\ pc = "done" /\ op = "decatoi"
    /\ SliceBytes = <<120>>
    /\ ret = 0
    /\ out = OutPrev

I64Less(a, b) ==
    \E k \in 1..4 : a[k] < b[k] /\ \A j \in (k + 1)..4 : a[j] = b[j]

RECURSIVE Pow10(_)
Pow10(k) == IF k = 0 THEN <<1, 0, 0, 0>> ELSE MulAdd10(Pow10(k - 1), 0).v

\* The decimal representation of n has at most wid digits.
FitsWidth(n, wid) == wid >= 1 /\ I64Less(I64OfU32(n), Pow10(wid))

\* mem[from..to-1] is the decimal representation of n: digits only, no
\* leading zero unless it is "0" itself, and n is the number they denote.
IsDecimalOf(mem, from, to, n) ==
    /\ from < to
    /\ \A i \in from..(to - 1) : isdigit(mem[i])
    /\ (to - from > 1 => mem[from] # 48)
    /\ Horner([i \in 1..(to - from) |-> mem[from + i - 1] - 48], I64Zero) = I64OfU32(n)

\* C8: fitoa writes exactly buf[0..wid]: buf[wid] is zero; a number of at
\* most wid digits is right-justified behind spaces; a number of more than
\* wid digits gives wid asterisks.
C8_FitoaField ==
    (pc = "done" /\ op = "fitoa") =>
        LET wid == args.wid
            n == args.n
        IN  /\ dst.w = 0..wid
            /\ ~dst.fault
            /\ \A i \in DOMAIN pre : i > wid => dst.mem[i] = pre[i]
            /\ dst.mem[wid] = 0
            /\ FitsWidth(n, wid) =>
                 \E k \in 1..wid :
                    /\ \A i \in 0..(wid - k - 1) : dst.mem[i] = 32
                    /\ IsDecimalOf(dst.mem, wid - k, wid, n)
            /\ ~FitsWidth(n, wid) => \A i \in 0..(wid - 1) : dst.mem[i] = 42
            /\ (U32Zero(n) /\ wid >= 1) =>
                 /\ \A i \in 0..(wid - 2) : dst.mem[i] = 32
                 /\ dst.mem[wid - 1] = 48
            /\ (n = U32(0, 7) /\ wid = 4) => CStr(dst.mem) = <<32, 32, 32, 55>>
            /\ (n = U32(0, 12345) /\ wid = 3) => CStr(dst.mem) = <<42, 42, 42>>

\* 4294967295 in a field of 9: ten digits do not fit, nine asterisks.
C8_Witness ==
    /\ pc = "done" /\ op = "fitoa"
    /\ args.n = U32(65535, 65535)
    /\ args.wid = 9
    /\ CStr(dst.mem) = <<42, 42, 42, 42, 42, 42, 42, 42, 42>>

\* C9: the unpadded decimal text numzcat appends to an empty string with
\* enough capacity is digits only, without leading zero or sign ("0" for
\* zero), and decatoi of that text with its exact length returns true with
\* the value n; numzcat of 42 onto "total=" with cap 12 gives "total=42".
C9_RoundTrip ==
    /\ (pc = "done" /\ op \in {"numzcat", "decatoi_text"} /\ EntryLen = 0
            /\ cap >= 2 /\ FitsWidth(args.n, cap - 1)) =>
            IsDecimalOf(dst.mem, 0, Len(CStr(dst.mem)), args.n)
    /\ (pc = "done" /\ op = "decatoi_text" /\ EntryLen = 0
            /\ cap >= 2 /\ FitsWidth(args.n, cap - 1)) =>
            /\ slice = CStr(dst.mem)
            /\ ret = 1
            /\ out = I64OfU32(args.n)
    /\ (pc = "done" /\ op = "numzcat" /\ CStr(pre) = <<116, 111, 116, 97, 108, 61>>
            /\ args.n = U32(0, 42) /\ cap = 12) =>
            CStr(dst.mem) = <<116, 111, 116, 97, 108, 61, 52, 50>>

\* 4294967295 rendered and parsed back.
C9_Witness ==
    /\ pc = "done" /\ op = "decatoi_text"
    /\ EntryLen = 0
    /\ args.n = U32(65535, 65535)
    /\ slice = <<52, 50, 57, 52, 57, 54, 55, 50, 57, 53>>
    /\ ret = 1
    /\ out = <<65535, 65535, 0, 0>>

(***************************************************************************)
(* The line reader as a state machine: a caller reads one stream to its    *)
(* end with one buffer, call after call.                                   *)
(***************************************************************************)
MaxStream == 5     \* longest stream drawn from LineChars
MaxLineCap == 4    \* largest buffer size drawn (besides the example's 8)
MaxCalls == 7      \* calls made on one stream

LinePhys == 8 + Slack

LineChars == {97, 98, CR, LF}                      \* 'a' 'b' CR LF
\* "alpha\r\nbeta\n"
StreamExample == <<97, 108, 112, 104, 97, 13, 10, 98, 101, 116, 97, 10>>
Streams == SeqsUpTo(LineChars, MaxStream) \cup {StreamExample}

InitLine ==
    /\ BufIdle /\ NumIdle /\ TokIdle
    /\ stream \in Streams
    /\ pos = 0
    /\ prevpos = 0
    /\ lbuf \in {[mem |-> JunkMem(LinePhys), w |-> {}, fault |-> FALSE,
                  size |-> n] : n \in (1..MaxLineCap) \cup {8}}
    /\ outs = <<>>

SafeGets ==
    /\ Len(outs) < MaxCalls
    /\ LET r == safe_gets(Fresh(lbuf.mem), FALSE, lbuf.size, stream, pos)
       IN  /\ lbuf' = [mem |-> r.m.mem, w |-> r.m.w, fault |-> r.m.fault, size |-> lbuf.size]
           /\ pos' = r.pos
           /\ outs' = Append(outs, [null |-> r.null,
                                    s |-> IF r.null THEN <<>> ELSE CStr(r.m.mem)])
    /\ prevpos' = pos
    /\ UNCHANGED <<bufVars, numVars, tokVars, stream>>

NextLine == SafeGets

SpecLine == InitLine /\ [][NextLine]_vars

(***************************************************************************)
(* The tokenizer as a state machine: two callers, each with a buffer and a *)
(* save pointer of its own, call in any interleaving.                      *)
(***************************************************************************)
MaxTokLen == 3     \* longest first buffer drawn from TokChars
MaxNulls == 2      \* calls made after the tokens ran out

TokChars == {97, 98, 44}                           \* 'a' 'b' ','
\* "a,,b"
TokExample == <<97, 44, 44, 98>>
TokStrs == SeqsUpTo(TokChars, MaxTokLen) \cup {TokExample}
\* "", ",a", "b,a,": what the second caller tokenizes
TokStrs2 == {<<>>, <<44, 97>>, <<98, 44, 97, 44>>, TokExample}
DelimSets == {{44}, {44, 98}}

StrMem(s) == [i \in 0..Len(s) |-> IF i < Len(s) THEN s[i + 1] ELSE 0]

InitTok ==
    /\ BufIdle /\ NumIdle /\ LineIdle
    /\ torig \in {<<a, b>> : a \in TokStrs, b \in TokStrs2}
    /\ tbuf = <<StrMem(torig[1]), StrMem(torig[2])>>
    /\ tsave = <<NULLP, NULLP>>
    /\ ttoks = <<<<>>, <<>>>>
    /\ tdone = <<0, 0>>
    /\ delim \in DelimSets

TokReturn(t, r) ==
    /\ tbuf' = [tbuf EXCEPT ![t] = r.mem]
    /\ tsave' = [tsave EXCEPT ![t] = r.save]
    /\ IF r.tok = NULLP
       THEN /\ tdone' = [tdone EXCEPT ![t] = @ + 1]
            /\ ttoks' = ttoks
       ELSE /\ tdone' = tdone
            /\ ttoks' = [ttoks EXCEPT ![t] = Append(@, [off |-> r.tok,
                                                         s |-> CStrFrom(r.mem, r.tok)])]
    /\ UNCHANGED <<bufVars, numVars, lineVars, torig, delim>>

\* token = safe_strtok(my_str, delim, &save_ptr);
TokFirst(t) ==
    /\ tsave[t] = NULLP
    /\ TokReturn(t, safe_strtok(tbuf[t], 0, delim, tsave[t]))

\* token = safe_strtok(NULL, delim, &save_ptr);
TokAgain(t) ==
    /\ tsave[t] # NULLP
    /\ tdone[t] < MaxNulls
    /\ TokReturn(t, safe_strtok(tbuf[t], NULLP, delim, tsave[t]))

NextTok == \E t \in {1, 2} : TokFirst(t) \/ TokAgain(t)

SpecTok == InitTok /\ [][NextTok]_vars

(***************************************************************************)
(* Properties of the line reader.                                          *)
(***************************************************************************)
\* The offset of the first LF at or after p (Len(data) if there is none).
RECURSIVE LineEnd(_, _)
LineEnd(data, p) ==
    IF p >= Len(data) \/ data[p + 1] = LF THEN p ELSE LineEnd(data, p + 1)

\* Where the physical line after the one holding offset p begins.
NextLineStart(data, p) == Min(LineEnd(data, p) + 1, Len(data))

LastCall == outs[Len(outs)]

\* C2: a call whose buffer holds fewer bytes (cap - 1) than the current
\* physical line has consumes the rest of that line, its LF included, so
\* that the stream stands at the first byte of the following line.
C2_LongLineDiscarded ==
    (Len(outs) >= 1 /\ ~LastCall.null /\ lbuf.size >= 2
        /\ lbuf.size - 1 < LineEnd(stream, prevpos) - prevpos) =>
        pos = NextLineStart(stream, prevpos)

\* The lines of a stream whose every byte belongs to a line ended by one of
\* the terminators in terms (each a sequence of bytes, the longest tried
\* first): a sequence of [text, size], size counting the terminator.
RECURSIVE LinesFrom(_, _, _, _)
LinesFrom(data, p, q, terms) ==
    IF p >= Len(data) THEN <<>>
    ELSE IF q >= Len(data) THEN <<[text |-> SubSeq(data, p + 1, q), size |-> 0]>>
    ELSE IF <<CR, LF>> \in terms /\ q + 2 <= Len(data) /\ SubSeq(data, q + 1, q + 2) = <<CR, LF>>
    THEN <<[text |-> SubSeq(data, p + 1, q), size |-> q + 2 - p]>> \o LinesFrom(data, q + 2, q + 2, terms)
    ELSE IF <<data[q + 1]>> \in terms
    THEN <<[text |-> SubSeq(data, p + 1, q), size |-> q + 1 - p]>> \o LinesFrom(data, q + 1, q + 1, terms)
    ELSE LinesFrom(data, p, q + 1, terms)

\* There is a line; every line is ended by a terminator of terms, holds no
\* other CR or LF, and fits with its terminator in the cap - 1 bytes one
\* fgets may read.
Framed(data, n, terms) ==
    LET ls == LinesFrom(data, 0, 0, terms)
    IN  /\ Len(ls) >= 1
        /\ \A i \in 1..Len(ls) :
            /\ ls[i].size > 0
            /\ ls[i].size <= n - 1
            /\ \A j \in 1..Len(ls[i].text) : ls[i].text[j] \notin {CR, LF}

\* Call number i returned line number i, and null once the lines ran out.
LinePerCall(terms) ==
    LET ls == LinesFrom(stream, 0, 0, terms)
    IN  \A i \in 1..Len(outs) :
            IF i <= Len(ls)
            THEN ~outs[i].null /\ outs[i].s = ls[i].text
            ELSE outs[i].null

\* C3 as claimed: on a stream of k >= 1 lines each ended by CR, LF or CR-LF and
\* each fitting in the buffer with its terminator, the calls return the
\* lines in order, one per call, and then null.
C3_LinesAnyTerminator ==
    Framed(stream, lbuf.size, {<<CR>>, <<LF>>, <<CR, LF>>}) =>
        LinePerCall({<<CR>>, <<LF>>, <<CR, LF>>})

\* C3: on a stream of k >= 1 lines each ended by LF or CR-LF (no CR elsewhere) and
\* each no longer, terminator included, than cap - 1 bytes, the calls
\* return the lines in order, one per call, without their terminators, and
\* then null.
C3_LinesLfOrCrLf ==
    Framed(stream, lbuf.size, {<<LF>>, <<CR, LF>>}) =>
        LinePerCall({<<LF>>, <<CR, LF>>})

\* "alpha\r\nbeta\n" read with a buffer of 8: "alpha", "beta", null.
C3_Witness ==
    /\ stream = StreamExample
    /\ lbuf.size = 8
    /\ outs = <<[null |-> FALSE, s |-> <<97, 108, 112, 104, 97>>],
                [null |-> FALSE, s |-> <<98, 101, 116, 97>>],
                [null |-> TRUE, s |-> <<>>]>>

(***************************************************************************)
(* Properties of the tokenizer.                                            *)
(***************************************************************************)
\* The maximal non-empty runs of non-delimiter bytes of s, left to right,
\* each with the offset it starts at.
RunStarts(s, ds) ==
    {i \in 1..Len(s) : s[i] \notin ds /\ (i = 1 \/ s[i - 1] \in ds)}

RunEnd(s, ds, i) ==
    CHOOSE j \in i..Len(s) :
        /\ \A k \in i..j : s[k] \notin ds
        /\ (j = Len(s) \/ s[j + 1] \in ds)

RECURSIVE RunsFrom(_, _, _)
RunsFrom(s, ds, starts) ==
    IF starts = {} THEN <<>>
    ELSE LET i == CHOOSE x \in starts : \A y \in starts : x <= y
         IN  <<[off |-> i - 1, s |-> SubSeq(s, i, RunEnd(s, ds, i))]>>
             \o RunsFrom(s, ds, starts \ {i})

Runs(s, ds) == RunsFrom(s, ds, RunStarts(s, ds))

\* C10: the tokens each caller has received are, in order, the first
\* maximal non-empty runs of non-delimiter bytes of its original buffer;
\* each still reads as a zero-terminated string at its place in the buffer;
\* null is returned only when all runs were returned, and from then on; and
\* this holds for both callers whatever the interleaving of their calls.
C10_TokensAreRuns ==
    \A t \in {1, 2} :
        LET rs == Runs(torig[t], delim)
            got == ttoks[t]
        IN  /\ Len(got) <= Len(rs)
            /\ \A k \in 1..Len(got) :
                /\ got[k] = rs[k]
                /\ got[k].s # <<>>
                /\ CStrFrom(tbuf[t], got[k].off) = got[k].s
            /\ (tdone[t] > 0 => Len(got) = Len(rs))
            /\ (torig[t] = TokExample /\ delim = {44} /\ tdone[t] > 0) =>
                    got = <<[off |-> 0, s |-> <<97>>], [off |-> 3, s |-> <<98>>]>>
            /\ tbuf[t][Len(torig[t])] = 0
            /\ \A i \in 0..(Len(torig[t]) - 1) :
                    tbuf[t][i] # torig[t][i + 1] => tbuf[t][i] = 0 /\ torig[t][i + 1] \in delim

\* Both callers under way: the first received "a" and "b" of "a,,b" and then
\* null, while the second has received only its first token.
C10_Witness ==
    /\ torig[1] = TokExample /\ delim = {44}
    /\ torig[2] = <<98, 44, 97, 44>>
    /\ tdone[1] = 1 /\ Len(ttoks[1]) = 2
    /\ tdone[2] = 0 /\ Len(ttoks[2]) = 1

====
